---- MODULE Spec2Model ----
(***************************************************************************)
(* Model of the Flask backend (backend/app.py) and of the LLM query parser *)
(* (backend/llm_utils.py).                                                 *)
(*                                                                         *)
(* Text is modelled at the lexical level: a Python string that Python      *)
(* inspects character by character (the query, JSON string values) is a    *)
(* sequence of one-character strings; the collaborator's generated text is *)
(* a sequence of JSON lexemes (braces, colon, comma, string, integer,      *)
(* null, true, the empty array, whitespace, and a word that is no JSON     *)
(* lexeme).  String lexemes contain no brace characters; JSON floats and   *)
(* non-empty arrays are not among the lexemes.                             *)
(***************************************************************************)
EXTENDS Integers, Sequences, FiniteSets, TLC

\* ------------------------------------------------------------------ bounds
\* Largest number of catalogue segments concatenated into a generated text.
MaxSegs == 2
\* Number of request-handling threads of the concurrent specification.
NumThreads == 2

\* ------------------------------------------------------- Python strings
S_attribute == <<"a","t","t","r","i","b","u","t","e">>
S_operator == <<"o","p","e","r","a","t","o","r">>
S_value == <<"v","a","l","u","e">>
S_height == <<"h","e","i","g","h","t">>
S_zoning == <<"z","o","n","i","n","g">>
S_feet == <<"f","e","e","t">>
S_error == <<"e","r","r","o","r">>
S_invalid == <<"I","n","v","a","l","i","d"," ","L","L","M"," ","o","u","t","p","u","t">>
S_area == <<"a","r","e","a">>
S_gt == <<">">>
S_rcg == <<"R","C","-","G">>

\* str.lower() on one character (the upper-case letters of the alphabet used).
LowerChar(c) ==
  CASE c = "F" -> "f"
    [] c = "E" -> "e"
    [] c = "T" -> "t"
    [] c = "R" -> "r"
    [] c = "C" -> "c"
    [] c = "G" -> "g"
    [] c = "I" -> "i"
    [] c = "L" -> "l"
    [] c = "M" -> "m"
    [] OTHER -> c

\* str.lower()
Lower(s) == [i \in 1..Len(s) |-> LowerChar(s[i])]

\* needle in hay  (Python substring test)
Contains(hay, needle) ==
  \E i \in 0..(Len(hay) - Len(needle)) :
    SubSeq(hay, i + 1, i + Len(needle)) = needle

\* Characters int() accepts as decimal digits (Unicode category Nd).
DecimalDigits == {"0","1","2","3","4","5","6","7","8","9"}
\* Characters for which str.isdigit() is true although int() rejects them;
\* "sup2" stands for U+00B2 SUPERSCRIPT TWO.
NonDecimalDigits == {"sup2"}

DigitValue(c) ==
  CASE c = "0" -> 0 [] c = "1" -> 1 [] c = "2" -> 2 [] c = "3" -> 3
    [] c = "4" -> 4 [] c = "5" -> 5 [] c = "6" -> 6 [] c = "7" -> 7
    [] c = "8" -> 8 [] c = "9" -> 9 [] OTHER -> 0

\* str.isdigit(): non-empty and every character is a digit character.
isdigit(s) ==
  Len(s) > 0 /\ \A i \in 1..Len(s) : s[i] \in DecimalDigits \cup NonDecimalDigits

RECURSIVE DecimalValue(_)
DecimalValue(s) ==
  IF s = <<>> THEN 0
  ELSE 10 * DecimalValue(SubSeq(s, 1, Len(s) - 1)) + DigitValue(s[Len(s)])

\* ------------------------------------------------------------ JSON values
\* A Python value obtained from JSON: k is its type, s the characters of a
\* str, n the int, the float in hundredths, the bool as 0/1, or len(list).
JStr(s) == [k |-> "str", s |-> s, n |-> 0]
JInt(n) == [k |-> "int", s |-> <<>>, n |-> n]
JFloat(h) == [k |-> "float", s |-> <<>>, n |-> h]
JBool(b) == [k |-> "bool", s |-> <<>>, n |-> b]
JList(len) == [k |-> "list", s |-> <<>>, n |-> len]
None == [k |-> "None", s |-> <<>>, n |-> 0]

\* The empty dict {}.  A dict is a function from keys (str) to values.
EmptyDict == <<>>

\* dict.get(key): None when the key is absent.
Get(d, key) == IF key \in DOMAIN d THEN d[key] ELSE None

\* Python truthiness of a value.
Truthy(v) ==
  CASE v.k = "str" -> Len(v.s) > 0
    [] v.k = "None" -> FALSE
    [] OTHER -> v.n # 0

\* ---------------------------------------------------------------- lexemes
Tok(kind) == [k |-> kind, s |-> <<>>, n |-> 0]
LB == Tok("lbrace")
RB == Tok("rbrace")
COLON == Tok("colon")
COMMA == Tok("comma")
WS == Tok("ws")
WORD == Tok("word")
NullTok == Tok("null")
TrueTok == Tok("true")
ArrTok == Tok("emptyarray")
StrTok(s) == [k |-> "str", s |-> s, n |-> 0]
IntTok(n) == [k |-> "int", s |-> <<>>, n |-> n]

ValueKinds == {"str", "int", "null", "true", "emptyarray"}

\* The Python value json.loads builds for a value lexeme.
TokValue(t) ==
  CASE t.k = "str" -> JStr(t.s)
    [] t.k = "int" -> JInt(t.n)
    [] t.k = "true" -> JBool(1)
    [] t.k = "emptyarray" -> JList(0)
    [] OTHER -> None

\* Sequence filter.
RECURSIVE NoWs(_)
NoWs(toks) ==
  IF toks = <<>> THEN <<>>
  ELSE IF Head(toks).k = "ws" THEN NoWs(Tail(toks))
       ELSE <<Head(toks)>> \o NoWs(Tail(toks))

\* str.strip(): drop leading and trailing whitespace.
RECURSIVE LStrip(_)
LStrip(toks) ==
  IF toks # <<>> /\ Head(toks).k = "ws" THEN LStrip(Tail(toks)) ELSE toks

RECURSIVE RStrip(_)
RStrip(toks) ==
  IF toks # <<>> /\ toks[Len(toks)].k = "ws"
  THEN RStrip(SubSeq(toks, 1, Len(toks) - 1)) ELSE toks

Strip(toks) == RStrip(LStrip(toks))

\* re.findall(r"\{.*?\}", text, re.DOTALL) from position `from` on: the
\* leftmost "{" up to the nearest following "}", then on after that "}".
RECURSIVE FindAllFrom(_, _)
FindAllFrom(toks, from) ==
  LET opens == {i \in from..Len(toks) : toks[i].k = "lbrace"}
  IN IF opens = {} THEN <<>>
     ELSE LET i == CHOOSE x \in opens : \A y \in opens : x <= y
              closes == {j \in (i + 1)..Len(toks) : toks[j].k = "rbrace"}
          IN IF closes = {} THEN <<>>
             ELSE LET j == CHOOSE x \in closes : \A y \in closes : x <= y
                  IN <<SubSeq(toks, i, j)>> \o FindAllFrom(toks, j + 1)

findall(toks) == FindAllFrom(toks, 1)

\* ------------------------------------------------------------- exceptions
NoExc == "None"
\* The class named by the inner handler: except json.JSONDecodeError.
\* Faulty variant: the inner handler catches every exception.
InnerCatchesAll(e) == e # NoExc
\* Faulty variant: the inner handler catches nothing.
InnerCatchesNothing(e) == FALSE
InnerCatches(e) == e = "JSONDecodeError"
\* The class named by the outer handler: except Exception.
\* Faulty variant: the outer handler catches JSONDecodeError only.
OuterCatchesDecodeOnly(e) == e = "JSONDecodeError"
OuterCatches(e) == e # NoExc

\* json.loads(match) on a brace-delimited block: a dict, or JSONDecodeError.
\* Members are  "key" : value  separated by commas; a repeated key keeps
\* its last value.
json_loads(match) ==
  LET t == NoWs(match)
      inner == SubSeq(t, 2, Len(t) - 1)
      n == (Len(inner) + 1) \div 4
      wellformed ==
        /\ Len(t) >= 2
        /\ t[1].k = "lbrace"
        /\ t[Len(t)].k = "rbrace"
        /\ \/ inner = <<>>
           \/ /\ Len(inner) % 4 = 3
              /\ \A i \in 0..(n - 1) :
                   /\ inner[4 * i + 1].k = "str"
                   /\ inner[4 * i + 2].k = "colon"
                   /\ inner[4 * i + 3].k \in ValueKinds
                   /\ (4 * i + 4 <= Len(inner) => inner[4 * i + 4].k = "comma")
      keys == {inner[4 * i + 1].s : i \in 0..(n - 1)}
      last(key) == CHOOSE i \in 0..(n - 1) :
                     /\ inner[4 * i + 1].s = key
                     /\ \A j \in 0..(n - 1) : inner[4 * j + 1].s = key => j <= i
  IN IF ~wellformed THEN [exc |-> "JSONDecodeError", val |-> EmptyDict]
     ELSE IF inner = <<>> THEN [exc |-> NoExc, val |-> EmptyDict]
     ELSE [exc |-> NoExc,
           val |-> [key \in keys |-> TokValue(inner[4 * last(key) + 3])]]

\* ---------------------------------------------------------- parse_query
\* round(x * 0.3048, 2) for an int x, in hundredths.  x * 3048 is never
\* half-way between two hundredths, so nearest is unambiguous.
FeetFactorTimes10000 == 3048
FeetToMeters(x) == (x * FeetFactorTimes10000 + 50) \div 100

\* "feet" in query.lower()
\* Faulty variant: the query is not lower-cased.
MentionsFeetCaseSensitive(query) == Contains(query, S_feet)
MentionsFeet(query) == Contains(Lower(query), S_feet)

\* Line 80-81: parsed_filter["value"] = round(parsed_filter["value"] * 0.3048, 2)
\* int and bool multiply with a float; str, None and list raise TypeError.
\* (JSON floats are not among the lexemes of the model.)
ConvertFeet(query, d) ==
  IF MentionsFeet(query) /\ d[S_attribute] = JStr(S_height)
  THEN IF d[S_value].k \in {"int", "bool"}
       THEN [exc |-> NoExc,
             val |-> [d EXCEPT ![S_value] = JFloat(FeetToMeters(d[S_value].n))]]
       ELSE [exc |-> "TypeError", val |-> d]
  ELSE [exc |-> NoExc, val |-> d]

\* Line 84-85: a zoning value that is a str with isdigit() becomes int(value);
\* int() raises ValueError on a digit character that is not a decimal digit.
\* Faulty variant: digit strings are converted under any attribute.
ConvertZoningAnyAttribute(d) ==
  IF d[S_value].k = "str" /\ isdigit(d[S_value].s)
  THEN [exc |-> NoExc, val |-> [d EXCEPT ![S_value] = JInt(DecimalValue(d[S_value].s))]]
  ELSE [exc |-> NoExc, val |-> d]
ConvertZoning(d) ==
  IF Get(d, S_attribute) = JStr(S_zoning) /\ d[S_value].k = "str" /\ isdigit(d[S_value].s)
  THEN IF \A i \in 1..Len(d[S_value].s) : d[S_value].s[i] \in DecimalDigits
       THEN [exc |-> NoExc,
             val |-> [d EXCEPT ![S_value] = JInt(DecimalValue(d[S_value].s))]]
       ELSE [exc |-> "ValueError", val |-> d]
  ELSE [exc |-> NoExc, val |-> d]

\* Line 78: all(k in parsed_filter for k in ("attribute", "operator", "value"))
HasAllKeys(d) == {S_attribute, S_operator, S_value} \subseteq DOMAIN d

\* Lines 79-88: the two conversions in order, then return parsed_filter.
Normalize(query, d) ==
  LET f == ConvertFeet(query, d)
  IN IF f.exc # NoExc THEN f ELSE ConvertZoning(f.val)

\* Faulty variant: a block that lacks a key ends the scan with {}.
LoopBodyReturnOnPartial(query, match) ==
  LET parsed == json_loads(match)
  IN IF parsed.exc # NoExc
     THEN [act |-> "continue", exc |-> NoExc, val |-> EmptyDict]
     ELSE IF HasAllKeys(parsed.val)
          THEN LET r == Normalize(query, parsed.val)
               IN IF r.exc = NoExc
                  THEN [act |-> "return", exc |-> NoExc, val |-> r.val]
                  ELSE [act |-> "raise", exc |-> r.exc, val |-> EmptyDict]
          ELSE [act |-> "return", exc |-> NoExc, val |-> EmptyDict]
\* Lines 74-91, one iteration of the loop over matches.  act is "return"
\* (line 88), "continue" (next iteration) or "raise" (the exception exc
\* leaves the loop).
LoopBody(query, match) ==
  LET parsed == json_loads(match)
  IN IF parsed.exc # NoExc
     THEN IF InnerCatches(parsed.exc)
          THEN [act |-> "continue", exc |-> NoExc, val |-> EmptyDict]
          ELSE [act |-> "raise", exc |-> parsed.exc, val |-> EmptyDict]
     ELSE IF HasAllKeys(parsed.val)
          THEN LET r == Normalize(query, parsed.val)
               IN IF r.exc = NoExc
                  THEN [act |-> "return", exc |-> NoExc, val |-> r.val]
                  ELSE IF InnerCatches(r.exc)
                       THEN [act |-> "continue", exc |-> NoExc, val |-> EmptyDict]
                       ELSE [act |-> "raise", exc |-> r.exc, val |-> EmptyDict]
          ELSE [act |-> "continue", exc |-> NoExc, val |-> EmptyDict]

\* Lines 96-98 (and the absence of any other handler): what parse_query
\* hands to its caller when exception e leaves the try body.
Handle(e) ==
  IF OuterCatches(e) THEN [raised |-> NoExc, val |-> EmptyDict]
  ELSE [raised |-> e, val |-> EmptyDict]

\* Lines 73-94: the loop from iteration i on.
RECURSIVE Scan(_, _, _)
Scan(query, ms, i) ==
  IF i > Len(ms) THEN [raised |-> NoExc, val |-> EmptyDict]
  ELSE LET b == LoopBody(query, ms[i])
       IN IF b.act = "return" THEN [raised |-> NoExc, val |-> b.val]
          ELSE IF b.act = "raise" THEN Handle(b.exc)
          ELSE Scan(query, ms, i + 1)

\* Lines 63-70: the collaborator call up to generated_text.  A reply is
\* [kind, text]; kind tells how far the call gets.
ReplyKinds == {"connection_error", "http_error", "body_not_json",
               "json_object", "empty_array", "first_not_object",
               "no_generated_text", "generated_text_null", "ok"}

GeneratedText(reply) ==
  CASE reply.kind = "connection_error" -> [exc |-> "ConnectionError", text |-> <<>>]
    [] reply.kind = "http_error" -> [exc |-> "HTTPError", text |-> <<>>]
    [] reply.kind = "body_not_json" -> [exc |-> "JSONDecodeError", text |-> <<>>]
    [] reply.kind = "json_object" -> [exc |-> "KeyError", text |-> <<>>]
    [] reply.kind = "empty_array" -> [exc |-> "IndexError", text |-> <<>>]
    [] reply.kind = "first_not_object" -> [exc |-> "AttributeError", text |-> <<>>]
    [] reply.kind = "generated_text_null" -> [exc |-> "AttributeError", text |-> <<>>]
    [] reply.kind = "no_generated_text" -> [exc |-> NoExc, text |-> Strip(<<>>)]
    [] OTHER -> [exc |-> NoExc, text |-> Strip(reply.text)]

\* parse_query(query) with the collaborator's reply made explicit.
parse_query(query, reply) ==
  LET g == GeneratedText(reply)
  IN IF g.exc # NoExc THEN Handle(g.exc)
     ELSE Scan(query, findall(g.text), 1)

\* --------------------------------------------------------------- app.py
\* Lines 69-77: validate the LLM response and build the HTTP response.
\* A response is [status, kind, body, doc]: body is the JSON object of a
\* /api/query response, doc the document of a /api/buildings response.
NoDoc == [type |-> "", features |-> <<>>]
NoResp == [status |-> 0, kind |-> "none", body |-> EmptyDict, doc |-> NoDoc]
ErrorBody == [key \in {S_error} |-> JStr(S_invalid)]

\* Faulty variant: value is tested for truthiness instead of for None.
ValidTruthyValue(d) ==
  Truthy(Get(d, S_attribute)) /\ Truthy(Get(d, S_operator)) /\ Truthy(Get(d, S_value))
Valid(d) ==
  Truthy(Get(d, S_attribute)) /\ Truthy(Get(d, S_operator)) /\ Get(d, S_value) # None

\* r is what parse_query handed back: [raised, val].  An exception that
\* reaches Flask becomes a 500 response.
Response(r) ==
  IF r.raised # NoExc
  THEN [status |-> 500, kind |-> "server_error", body |-> EmptyDict, doc |-> NoDoc]
  ELSE IF ~Valid(r.val)
       THEN [status |-> 400, kind |-> "error", body |-> ErrorBody, doc |-> NoDoc]
       ELSE [status |-> 200, kind |-> "filter", body |-> r.val, doc |-> NoDoc]

\* Line 65: request.json.get("query", "")
UserInput(body) == IF body.has_query THEN body.query ELSE <<>>

\* ----------------------------------------------------------------- inputs
Q_FeEt == <<"1","0","0"," ","F","e","E","T">>
Q_tall == <<"f","e","e"," ","t","a","l","l">>
Queries == {Q_FeEt, Q_tall}
RequestBodies ==
  {[has_query |-> TRUE, query |-> q] : q \in Queries}
    \cup {[has_query |-> FALSE, query |-> <<>>]}

Obj2(a, o) ==
  <<LB, StrTok(S_attribute), COLON, a, COMMA, StrTok(S_operator), COLON, o, RB>>
Obj3(a, o, v) ==
  <<LB, StrTok(S_attribute), COLON, a, COMMA, StrTok(S_operator), COLON, o,
    COMMA, StrTok(S_value), COLON, v, RB>>

T_height == StrTok(S_height)
T_zoning == StrTok(S_zoning)
T_area == StrTok(S_area)
T_gt == StrTok(S_gt)
T_five == StrTok(<<"5">>)
T_rcg == StrTok(S_rcg)
T_sup2 == StrTok(<<"sup2">>)

\* Blocks with the three keys.
FullBlocks ==
  {Obj3(T_height, T_gt, v) : v \in {IntTok(100), T_five, NullTok}}
    \cup {Obj3(T_zoning, T_gt, v) : v \in {T_five, T_rcg, T_sup2}}
    \cup {Obj3(T_area, T_gt, IntTok(0)),
          Obj3(T_height, StrTok(<<>>), IntTok(100)),
          <<LB, WS>> \o Tail(Obj3(T_height, T_gt, IntTok(-7)))}
\* Blocks that parse but lack a key.
PartialBlocks == {Obj2(T_height, T_gt)}
\* Blocks that do not parse.
BadBlocks == {<<LB, WORD, RB>>}
\* Whitespace outside any block and an unclosed "{" (in front of a block it
\* makes that block one that does not parse).
Junk == {<<WS>>, <<LB>>}

Segments == FullBlocks \cup PartialBlocks \cup BadBlocks \cup Junk

RECURSIVE Concat(_)
Concat(segs) == IF segs = <<>> THEN <<>> ELSE Head(segs) \o Concat(Tail(segs))

Texts(max) == UNION {{Concat(f) : f \in [1..k -> Segments]} : k \in 0..max}

Replies ==
  {[kind |-> "ok", text |-> x] : x \in Texts(MaxSegs)}
    \cup {[kind |-> k, text |-> <<>>] : k \in ReplyKinds \ {"ok"}}

\* The inputs of the concurrent specification.
ConcBodies == {[has_query |-> TRUE, query |-> q] : q \in {Q_FeEt, Q_tall}}
ConcReplies ==
  {[kind |-> "connection_error", text |-> <<>>],
   [kind |-> "ok", text |-> Obj2(T_height, T_gt) \o Obj3(T_zoning, T_gt, T_sup2)],
   [kind |-> "ok", text |-> <<LB, WORD, RB>> \o Obj3(T_height, T_gt, IntTok(100))],
   [kind |-> "ok", text |-> Obj3(T_height, T_gt, T_five) \o Obj3(T_zoning, T_gt, T_five)]}

LargeDocument == [type |-> "FeatureCollection", features |-> <<"b1", "b2">>]
Documents == {[type |-> "FeatureCollection", features |-> <<>>], LargeDocument}

\* ------------------------------------------------------------------ state
Threads == 1..NumThreads
\* The first thread.
MainThread == CHOOSE t \in Threads : \A u \in Threads : t <= u

VARIABLES
  request,        \* the environment: the drawn POST body that is to arrive
                  \* and the reply the collaborator will give to it
  loaded_doc,     \* what json.load(f) returned at import (app.py line 52)
  building_data,  \* the module global building_data
  pc,             \* per thread: where it is in query_buildings
  user_input,     \* per thread: local user_input / parameter query
  reply,          \* per thread: what the collaborator answered
  matches,        \* per thread: local matches
  idx,            \* per thread: position of the for loop in matches
  llm_response,   \* per thread: what parse_query handed back
  resp            \* per thread: the last HTTP response sent

vars == <<request, loaded_doc, building_data, pc, user_input, reply, matches,
          idx, llm_response, resp>>

NoReply == [kind |-> "none", text |-> <<>>]
NoResult == [raised |-> NoExc, val |-> EmptyDict]
\* No request is drawn: requests arrive freely from the concurrent inputs.
NoRequest ==
  [drawn |-> FALSE, sent |-> FALSE, has_query |-> FALSE, query |-> <<>>,
   reply |-> NoReply]

\* The state once app.py is imported: the document is loaded, no request
\* has been handled.
Started(docs) ==
  /\ loaded_doc \in docs
  /\ building_data = loaded_doc
  /\ pc = [t \in Threads |-> "idle"]
  /\ user_input = [t \in Threads |-> <<>>]
  /\ reply = [t \in Threads |-> NoReply]
  /\ matches = [t \in Threads |-> <<>>]
  /\ idx = [t \in Threads |-> 0]
  /\ llm_response = [t \in Threads |-> NoResult]
  /\ resp = [t \in Threads |-> NoResp]

\* One POST /api/query, drawn from the inputs, is about to arrive together
\* with the reply the collaborator will give to it; any thread may serve it,
\* and GET /api/buildings is served while it is in flight.
Init ==
  /\ Started({LargeDocument})
  /\ request \in {[drawn |-> TRUE, sent |-> TRUE, has_query |-> b.has_query,
                   query |-> b.query, reply |-> r] :
                     b \in RequestBodies, r \in Replies}

\* The POST bodies that can arrive now, and the replies the collaborator
\* can give now.
Arrivals ==
  IF request.drawn
  THEN IF request.sent
       THEN {[has_query |-> request.has_query, query |-> request.query]}
       ELSE {}
  ELSE ConcBodies
Answers == IF request.drawn THEN {request.reply} ELSE ConcReplies

\* GET /api/buildings, lines 54-57.
\* Faulty variant: serving the document empties its feature list.
get_buildings_pop(t) ==
  /\ pc[t] = "idle"
  /\ resp' = [resp EXCEPT ![t] =
       [status |-> 200, kind |-> "buildings", body |-> EmptyDict, doc |-> building_data]]
  /\ building_data' = [building_data EXCEPT !.features = <<>>]
  /\ UNCHANGED <<request, loaded_doc, pc, user_input, reply, matches, idx, llm_response>>
get_buildings(t) ==
  /\ pc[t] = "idle"
  /\ resp' = [resp EXCEPT ![t] =
       [status |-> 200, kind |-> "buildings", body |-> EmptyDict, doc |-> building_data]]
  /\ UNCHANGED <<request, loaded_doc, building_data, pc, user_input, reply,
                 matches, idx, llm_response>>

\* POST /api/query, app.py lines 59-77 with the parse_query call it makes,
\* in the steps Receive, Collaborate, LoopStep and Respond.  Flask serves
\* each request on its own thread, and a thread waits on the network inside
\* requests.post, so other threads run between these steps.

\* The parameter query of the parse_query call thread t is running.
\* Faulty variant: the query is kept in a place all threads share.
QueryOfMainThread(t) == user_input[MainThread]
QueryOf(t) == user_input[t]

\* app.py lines 65-66 and llm_utils.py lines 51-60: the request arrives,
\* parse_query is entered and the prompt is built.
Receive(t) ==
  /\ pc[t] = "idle"
  /\ \E body \in Arrivals : user_input' = [user_input EXCEPT ![t] = UserInput(body)]
  /\ request' = [request EXCEPT !.sent = FALSE]
  /\ pc' = [pc EXCEPT ![t] = "calling"]
  /\ reply' = [reply EXCEPT ![t] = NoReply]
  /\ llm_response' = [llm_response EXCEPT ![t] = NoResult]
  /\ resp' = [resp EXCEPT ![t] = NoResp]
  /\ UNCHANGED <<loaded_doc, building_data, matches, idx>>

\* llm_utils.py lines 63-72: the collaborator answers; either an exception
\* reaches the outer handler or the blocks are found and the loop starts.
Collaborate(t) ==
  /\ pc[t] = "calling"
  /\ \E rep \in Answers :
       LET g == GeneratedText(rep)
       IN /\ reply' = [reply EXCEPT ![t] = rep]
          /\ IF g.exc # NoExc
             THEN /\ llm_response' = [llm_response EXCEPT ![t] = Handle(g.exc)]
                  /\ pc' = [pc EXCEPT ![t] = "returned"]
                  /\ UNCHANGED <<matches, idx>>
             ELSE /\ matches' = [matches EXCEPT ![t] = findall(g.text)]
                  /\ idx' = [idx EXCEPT ![t] = 1]
                  /\ pc' = [pc EXCEPT ![t] = "loop"]
                  /\ UNCHANGED llm_response
  /\ UNCHANGED <<request, loaded_doc, building_data, user_input, resp>>

\* llm_utils.py lines 73-94: one iteration of the loop, or its end.
LoopStep(t) ==
  /\ pc[t] = "loop"
  /\ IF idx[t] > Len(matches[t])
     THEN /\ llm_response' = [llm_response EXCEPT ![t] = NoResult]
          /\ pc' = [pc EXCEPT ![t] = "returned"]
          /\ UNCHANGED idx
     ELSE LET b == LoopBody(QueryOf(t), matches[t][idx[t]])
          IN IF b.act = "continue"
             THEN /\ idx' = [idx EXCEPT ![t] = idx[t] + 1]
                  /\ UNCHANGED <<llm_response, pc>>
             ELSE /\ llm_response' = [llm_response EXCEPT ![t] =
                        IF b.act = "return" THEN [raised |-> NoExc, val |-> b.val]
                        ELSE Handle(b.exc)]
                  /\ pc' = [pc EXCEPT ![t] = "returned"]
                  /\ UNCHANGED idx
  /\ UNCHANGED <<request, loaded_doc, building_data, user_input, reply, matches, resp>>

\* app.py lines 69-77: validate what parse_query returned and respond.
Respond(t) ==
  /\ pc[t] = "returned"
  /\ resp' = [resp EXCEPT ![t] = Response(llm_response[t])]
  /\ pc' = [pc EXCEPT ![t] = "idle"]
  /\ matches' = [matches EXCEPT ![t] = <<>>]
  /\ idx' = [idx EXCEPT ![t] = 0]
  /\ UNCHANGED <<request, loaded_doc, building_data, user_input, reply, llm_response>>

Next ==
  \E t \in Threads :
    \/ Receive(t)
    \/ Collaborate(t)
    \/ LoopStep(t)
    \/ Respond(t)
    \/ get_buildings(t)

Spec == Init /\ [][Next]_vars

\* Any number of POST /api/query requests, on all threads at once, over the
\* concurrent inputs.
InitConc == Started(Documents) /\ request = NoRequest

ConcSpec == InitConc /\ [][Next]_vars

\* ----------------------------------------------------------- properties
\* parse_query has returned to thread t for the inputs user_input[t], reply[t].
Returned(t) == reply[t].kind # "none" /\ pc[t] \in {"returned", "idle"}
\* Thread t's last response answers a POST /api/query.
Answered(t) == Returned(t) /\ resp[t].kind \in {"filter", "error", "server_error"}

\* The candidate blocks of thread t's generated text, in order of appearance.
BlocksOf(t) == IF reply[t].kind = "ok" THEN findall(Strip(reply[t].text)) ELSE <<>>
Parses(b) == json_loads(b).exc = NoExc
ObjectOf(b) == json_loads(b).val
\* The block parses and has the keys attribute, operator and value.
Full(b) == Parses(b) /\ {S_attribute, S_operator, S_value} \subseteq DOMAIN ObjectOf(b)
\* Index of the earliest full block, 0 if there is none.
FirstFull(ms) ==
  IF \E i \in 1..Len(ms) : Full(ms[i])
  THEN CHOOSE i \in 1..Len(ms) : Full(ms[i]) /\ \A j \in 1..(i - 1) : ~Full(ms[j])
  ELSE 0
\* The object of the earliest full block of thread t.
Chosen(t) == ObjectOf(BlocksOf(t)[FirstFull(BlocksOf(t))])
HasChosen(t) == Returned(t) /\ reply[t].kind = "ok" /\ FirstFull(BlocksOf(t)) # 0

\* The query contains f, e, e, t in a row, each in either letter case.
FeetAnyCase(q) ==
  \E i \in 1..(Len(q) - 3) :
    /\ q[i] \in {"f", "F"}
    /\ q[i + 1] \in {"e", "E"}
    /\ q[i + 2] \in {"e", "E"}
    /\ q[i + 3] \in {"t", "T"}

IsHeight(d) == d[S_attribute] = JStr(S_height)
IsZoning(d) == d[S_attribute] = JStr(S_zoning)
\* A str made of one or more characters 0-9.
DecimalString(v) ==
  v.k = "str" /\ Len(v.s) > 0 /\ \A i \in 1..Len(v.s) : v.s[i] \in DecimalDigits
\* A str made of one or more digit characters (what str.isdigit accepts).
DigitString(v) == v.k = "str" /\ isdigit(v.s)
\* Normalizing d under query q raises.
NormalizationFails(q, d) ==
  \/ FeetAnyCase(q) /\ IsHeight(d) /\ d[S_value].k \notin {"int", "bool"}
  \/ IsZoning(d) /\ DigitString(d[S_value]) /\ ~DecimalString(d[S_value])

Result(t) == llm_response[t].val

\* C1: parse_query never raises to its caller, and every failure cause
\* (transport failure, non-success status, malformed response shape, missing
\* generated text, no brace block, no parseable block, no block with all
\* required keys, a failing normalization step) yields the empty object.
C1_FailureCause(t) ==
  \/ reply[t].kind # "ok"
  \/ BlocksOf(t) = <<>>
  \/ \A i \in 1..Len(BlocksOf(t)) : ~Parses(BlocksOf(t)[i])
  \/ FirstFull(BlocksOf(t)) = 0
  \/ NormalizationFails(user_input[t], Chosen(t))
C1_NeverRaises ==
  \A t \in Threads :
    Returned(t) =>
      /\ llm_response[t].raised = NoExc
      /\ (C1_FailureCause(t) => Result(t) = EmptyDict)
C1_Witness ==
  \E t \in Threads :
    /\ HasChosen(t)
    /\ NormalizationFails(user_input[t], Chosen(t))
    /\ llm_response[t] = [raised |-> NoExc, val |-> EmptyDict]
    /\ resp[t].status = 400

\* C2 (as stated): parse_query returns the Filter built from the earliest
\* block that parses and has all three keys, whatever the blocks are; the
\* empty object if no block has them.
C2_Original ==
  \A t \in Threads :
    Returned(t) /\ reply[t].kind = "ok" =>
      IF FirstFull(BlocksOf(t)) = 0 THEN Result(t) = EmptyDict
      ELSE /\ Result(t) # EmptyDict
           /\ Result(t)[S_attribute] = Chosen(t)[S_attribute]
           /\ Result(t)[S_operator] = Chosen(t)[S_operator]
\* C2 (amended): the result is decided by the earliest block that parses and
\* has all three keys: the Filter built from it when its normalization
\* succeeds, the empty object when its normalization fails; earlier blocks
\* that fail to parse or lack a key are skipped, later blocks do not matter;
\* without such a block the result is the empty object.
C2_FirstQualifying ==
  \A t \in Threads :
    /\ pc[t] = "loop" /\ FirstFull(matches[t]) # 0 => idx[t] <= FirstFull(matches[t])
    /\ Returned(t) /\ reply[t].kind = "ok" =>
      IF FirstFull(BlocksOf(t)) = 0 THEN Result(t) = EmptyDict
      ELSE IF NormalizationFails(user_input[t], Chosen(t)) THEN Result(t) = EmptyDict
      ELSE /\ Result(t) = Normalize(user_input[t], Chosen(t)).val
           /\ DOMAIN Result(t) = DOMAIN Chosen(t)
           /\ Result(t)[S_attribute] = Chosen(t)[S_attribute]
           /\ Result(t)[S_operator] = Chosen(t)[S_operator]
C2_Witness ==
  \E t \in Threads :
    /\ HasChosen(t)
    /\ FirstFull(BlocksOf(t)) = 2
    /\ Parses(BlocksOf(t)[1])
    /\ DOMAIN ObjectOf(BlocksOf(t)[1]) = {S_attribute, S_operator}
    /\ Result(t) = Chosen(t)
    /\ resp[t].status = 200

\* C3: a block with all three keys whose value is null is discarded, so
\* parse_query never returns an object whose value field is null.
C3_NullValueNeverReturned ==
  \A t \in Threads :
    Returned(t) /\ S_value \in DOMAIN Result(t) => Result(t)[S_value] # None

\* C4 (as stated): 200 with the Filter whenever parse_query yields all three
\* keys, a non-null value, a non-empty string attribute and any string
\* operator; 400 exactly when it yields the empty object or lacks a field.
C4_Original ==
  \A t \in Threads :
    Answered(t) =>
      LET d == Result(t)
          complete == {S_attribute, S_operator, S_value} \subseteq DOMAIN d
      IN /\ ( /\ complete
              /\ d[S_value] # None
              /\ d[S_attribute].k = "str" /\ Len(d[S_attribute].s) > 0
              /\ d[S_operator].k = "str"
              => resp[t].status = 200 /\ resp[t].body = d )
         /\ (resp[t].status = 400 <=> (d = EmptyDict \/ ~complete))
\* C4 (amended): 200 with the object as body whenever it has all three keys,
\* a non-null value and an attribute and an operator that are not null and
\* not empty (nor 0, false or an empty list); 400 with the error body in
\* exactly the other cases; never another status.
C4_Empty(v) == v = None \/ v = JStr(<<>>) \/ (v.k # "str" /\ v.n = 0)
C4_Accepted(d) ==
  /\ {S_attribute, S_operator, S_value} \subseteq DOMAIN d
  /\ d[S_value] # None
  /\ ~C4_Empty(d[S_attribute])
  /\ ~C4_Empty(d[S_operator])
C4_Status ==
  \A t \in Threads :
    Answered(t) =>
      IF C4_Accepted(Result(t))
      THEN resp[t].status = 200 /\ resp[t].body = Result(t)
      ELSE resp[t].status = 400 /\ resp[t].body = ErrorBody
C4_Witness ==
  \E t \in Threads :
    /\ Answered(t)
    /\ S_operator \in DOMAIN Result(t)
    /\ Result(t)[S_operator] = JStr(<<>>)
    /\ Result(t)[S_value] = JInt(100)
    /\ resp[t].status = 400

\* C5: with "feet" in the query in any letter case, attribute "height" and an
\* integer value v, the returned value is v * 0.3048 rounded to 2 decimals
\* (100 becomes 30.48), attribute and operator unchanged; without "feet" or
\* with another attribute the value is not converted to meters.
C5_Meters(v, out) ==
  /\ out.k = "float"
  /\ out.n * 100 - v * 3048 \in -50..50
  /\ (v = 100 => out.n = 3048)
C5_FeetToMeters ==
  \A t \in Threads :
    HasChosen(t) =>
      LET d == Chosen(t)
          q == user_input[t]
      IN /\ ( FeetAnyCase(q) /\ IsHeight(d) /\ d[S_value].k = "int" =>
                /\ DOMAIN Result(t) = DOMAIN d
                /\ Result(t)[S_attribute] = d[S_attribute]
                /\ Result(t)[S_operator] = d[S_operator]
                /\ C5_Meters(d[S_value].n, Result(t)[S_value]) )
         /\ ( ~(FeetAnyCase(q) /\ IsHeight(d)) /\ ~NormalizationFails(q, d) =>
                /\ DOMAIN Result(t) = DOMAIN d
                /\ Result(t)[S_value].k # "float"
                /\ (~(IsZoning(d) /\ DigitString(d[S_value])) => Result(t) = d) )
C5_Witness ==
  \E t \in Threads :
    /\ HasChosen(t)
    /\ user_input[t] = Q_FeEt
    /\ Chosen(t)[S_value] = JInt(100)
    /\ Result(t)[S_attribute] = JStr(S_height)
    /\ Result(t)[S_value] = JFloat(3048)
    /\ resp[t].status = 200

\* C6 (as stated): a zoning value that is a string of digit characters
\* becomes the corresponding integer; a zoning value that is a non-digit
\* string or a number, and a digit string under any other attribute, is
\* returned unchanged.
C6_Original ==
  \A t \in Threads :
    HasChosen(t) =>
      LET d == Chosen(t)
      IN /\ ( IsZoning(d) /\ DigitString(d[S_value]) =>
                Result(t) # EmptyDict /\ Result(t)[S_value].k = "int" )
         /\ ( IsZoning(d) /\ ~DigitString(d[S_value]) /\ d[S_value].k \in {"str", "int"} =>
                Result(t) = d )
         /\ ( ~IsZoning(d) /\ DigitString(d[S_value]) => Result(t) = d )
\* C6 (amended): a zoning value that is a string of decimal digits 0-9
\* becomes that integer ("5" becomes 5), attribute and
\* operator unchanged; a zoning string holding a digit character int() does
\* not accept gives the empty object; a zoning value that is a non-digit
\* string or no string is returned unchanged; a digit string under another
\* attribute is returned unchanged, except that under "height" with "feet"
\* in the query the result is the empty object.
C6_IntOf(str, out) ==
  /\ out.k = "int"
  /\ (str = <<"5">> => out.n = 5)
  /\ out.n = DecimalValue(str)
C6_Zoning ==
  \A t \in Threads :
    HasChosen(t) =>
      LET d == Chosen(t)
          q == user_input[t]
      IN /\ ( IsZoning(d) /\ DecimalString(d[S_value]) =>
                /\ DOMAIN Result(t) = DOMAIN d
                /\ Result(t)[S_attribute] = d[S_attribute]
                /\ Result(t)[S_operator] = d[S_operator]
                /\ C6_IntOf(d[S_value].s, Result(t)[S_value]) )
         /\ ( IsZoning(d) /\ DigitString(d[S_value]) /\ ~DecimalString(d[S_value]) =>
                Result(t) = EmptyDict )
         /\ ( IsZoning(d) /\ ~DigitString(d[S_value]) => Result(t) = d )
         /\ ( ~IsZoning(d) /\ DigitString(d[S_value]) =>
                IF FeetAnyCase(q) /\ IsHeight(d) THEN Result(t) = EmptyDict
                ELSE Result(t) = d )
C6_Witness ==
  \E t \in Threads :
    /\ HasChosen(t)
    /\ IsZoning(Chosen(t))
    /\ Chosen(t)[S_value] = JStr(<<"5">>)
    /\ Result(t)[S_value] = JInt(5)
    /\ resp[t].status = 200

\* A reply of exactly two blocks of which the second has all three keys and
\* normalizes, and the first has not all three keys.
C7_OnlySecond(t) ==
  /\ Returned(t) /\ reply[t].kind = "ok"
  /\ Len(BlocksOf(t)) = 2
  /\ ~Full(BlocksOf(t)[1])
  /\ Full(BlocksOf(t)[2])
  /\ ~NormalizationFails(user_input[t], ObjectOf(BlocksOf(t)[2]))
\* C7 (as stated): of two blocks of which only the second qualifies, a first
\* block that fails to parse makes the result the empty object; only a first
\* block that parses but lacks keys lets the second be returned.
C7_Original ==
  \A t \in Threads :
    C7_OnlySecond(t) =>
      IF Parses(BlocksOf(t)[1])
      THEN Result(t) = Normalize(user_input[t], ObjectOf(BlocksOf(t)[2])).val
      ELSE Result(t) = EmptyDict
\* C7 (amended): of two blocks of which only the second qualifies, the
\* Filter built from the second is returned both when the first block fails
\* to parse and when it parses as an object lacking required keys.
C7_SecondReturned ==
  \A t \in Threads :
    C7_OnlySecond(t) =>
      /\ Result(t) # EmptyDict
      /\ Result(t) = Normalize(user_input[t], ObjectOf(BlocksOf(t)[2])).val
C7_Witness ==
  \E t \in Threads :
    /\ C7_OnlySecond(t)
    /\ ~Parses(BlocksOf(t)[1])
    /\ Result(t) = ObjectOf(BlocksOf(t)[2])
    /\ resp[t].status = 200

\* C8: under any interleaving of concurrent calls and after any earlier
\* calls, a call's result is the function of its own (query, reply); two
\* calls with the same pair have the same result.
C8_Deterministic ==
  /\ \A t \in Threads :
       Returned(t) => llm_response[t] = parse_query(user_input[t], reply[t])
  /\ \A t1, t2 \in Threads :
       /\ Returned(t1) /\ Returned(t2)
       /\ user_input[t1] = user_input[t2] /\ reply[t1] = reply[t2]
       => llm_response[t1] = llm_response[t2]
C8_Witness ==
  \E t1, t2 \in Threads :
    /\ t1 # t2
    /\ pc[t1] = "returned" /\ pc[t2] = "loop" /\ idx[t2] = 2
    /\ resp[t2] = NoResp
    /\ reply[t1] = reply[t2]
    /\ user_input[t1] = Q_tall /\ user_input[t2] = Q_FeEt
    /\ Result(t1) # EmptyDict
    /\ Result(t1)[S_value] = JInt(100)

\* C9: after any sequence of requests, every GET /api/buildings responds 200
\* with the document loaded at startup, and the in-memory building data is
\* still that document.
C9_BuildingsUnchanged ==
  /\ building_data = loaded_doc
  /\ \A t \in Threads :
       resp[t].kind = "buildings" => resp[t].status = 200 /\ resp[t].doc = loaded_doc
C9_Witness ==
  \E t1, t2 \in Threads :
    /\ resp[t1].status = 400
    /\ resp[t2].kind = "buildings"
    /\ resp[t2].doc.features # <<>>
    /\ pc[t1] = "idle" /\ reply[t1].kind = "ok"

\* C10: when the query contains "feet" and the first block with all three
\* keys has attribute "height" and a string or null value, the result is the
\* empty object whatever follows that block; blocks before it that fail to
\* parse were passed over.
C10_NormalizationFailureEndsScan ==
  \A t \in Threads :
    HasChosen(t) =>
      ( /\ FeetAnyCase(user_input[t])
        /\ IsHeight(Chosen(t))
        /\ Chosen(t)[S_value].k \in {"str", "None"}
        => Result(t) = EmptyDict /\ llm_response[t].raised = NoExc )
C10_Witness ==
  \E t \in Threads :
    /\ HasChosen(t)
    /\ FeetAnyCase(user_input[t])
    /\ FirstFull(BlocksOf(t)) = 1
    /\ IsHeight(Chosen(t))
    /\ Chosen(t)[S_value] = None
    /\ Len(BlocksOf(t)) = 2
    /\ Full(BlocksOf(t)[2])
    /\ ~NormalizationFails(user_input[t], ObjectOf(BlocksOf(t)[2]))
    /\ Result(t) = EmptyDict

====
